---- MODULE Spec2Model ----
(***************************************************************************)
(* Model of the query compiler of src/lib/query/mongo.query.ts: parse and  *)
(* its builders (getIntKey, getSkipFromPage, getSelect, getSort,           *)
(* getFilter) and the value classifier getSimpleFilterValue with its       *)
(* predicates.  A JavaScript string is a sequence of one-character         *)
(* strings, so that startsWith, indexOf, substring, split and the regular  *)
(* expressions of the source are computed character by character.          *)
(***************************************************************************)
EXTENDS Integers, Sequences, FiniteSets, TLC

(***************************************************************************)
(* Characters and their ASCII codes (the regular expressions of the        *)
(* source use code-point ranges such as A-z and .-} ).  The double quote,   *)
(* the backslash and the backtick are written by name.                     *)
(***************************************************************************)
AsciiTable ==
   << 
      " ", "!", "DQUOTE", "#", "$", "%", "&", "'", "(", ")", "*", "+",
      ",", "-", ".", "/", "0", "1", "2", "3", "4", "5", "6", "7",
      "8", "9", ":", ";", "<", "=", ">", "?", "@", "A", "B", "C",
      "D", "E", "F", "G", "H", "I", "J", "K", "L", "M", "N", "O",
      "P", "Q", "R", "S", "T", "U", "V", "W", "X", "Y", "Z", "[",
      "BACKSLASH", "]", "^", "_", "BACKTICK", "a", "b", "c", "d", "e", "f", "g",
      "h", "i", "j", "k", "l", "m", "n", "o", "p", "q", "r", "s",
      "t", "u", "v", "w", "x", "y", "z", "{", "|", "}", "~"
   >>

AsciiChars == { AsciiTable[i] : i \in 1..Len(AsciiTable) }

CodeOf == [ c \in AsciiChars |-> 31 + (CHOOSE i \in 1..Len(AsciiTable) : AsciiTable[i] = c) ]

Code(c) == CodeOf[c]

InRange(c, lo, hi) == Code(lo) <= Code(c) /\ Code(c) <= Code(hi)

\* \d of a JavaScript regular expression
IsDigit(c) == InRange(c, "0", "9")

\* \w of a JavaScript regular expression: [A-Za-z0-9_]
IsWordChar(c) == InRange(c, "A", "Z") \/ InRange(c, "a", "z") \/ IsDigit(c) \/ c = "_"

\* \s of a JavaScript regular expression, restricted to printable ASCII
IsSpaceChar(c) == c = " "

(***************************************************************************)
(* String.prototype methods used by the source.                            *)
(***************************************************************************)
startsWith(s, p) == Len(s) >= Len(p) /\ SubSeq(s, 1, Len(p)) = p

endsWith(s, p) == Len(s) >= Len(p) /\ SubSeq(s, Len(s) - Len(p) + 1, Len(s)) = p

\* 0-based position of the first occurrence of the string p at or after
\* 0-based position from, or -1
RECURSIVE indexOfFrom(_, _, _)
indexOfFrom(s, p, from) ==
   IF from + Len(p) > Len(s) THEN -1
   ELSE IF SubSeq(s, from + 1, from + Len(p)) = p THEN from
   ELSE indexOfFrom(s, p, from + 1)

indexOf(s, p) == indexOfFrom(s, p, 0)

\* s.substring(a, b) and s.substring(a), 0-based, b exclusive
substring(s, a, b) == SubSeq(s, a + 1, b)

substringFrom(s, a) == SubSeq(s, a + 1, Len(s))

\* s.split(sep) for a non-empty separator: the pieces between occurrences,
\* empty pieces included
RECURSIVE split(_, _)
split(s, sep) ==
   LET i == indexOf(s, sep)
   IN  IF i = -1 THEN << s >>
       ELSE << substring(s, 0, i) >> \o split(substringFrom(s, i + Len(sep)), sep)

\* s.replace(/c/g, r) for a one-character pattern c
RECURSIVE replaceAll(_, _, _)
replaceAll(s, c, r) ==
   IF s = << >> THEN << >>
   ELSE (IF Head(s) = c THEN r ELSE << Head(s) >>) \o replaceAll(Tail(s), c, r)

\* StringUtils.cleanString(str, regex): str.replace(regex, empty) for a global
\* one-character regular expression, given as the set of the characters
\* that match it
cleanString(str, regex) == SelectSeq(str, LAMBDA c : c \notin regex)

\* StringUtils.splitString(str, sep)
splitString(str, sep) == split(str, sep)

\* /[^A-z0-9_.]/ : the range A-z is the code points 65..122
KeyRegex == { c \in AsciiChars : ~(InRange(c, "A", "z") \/ IsDigit(c) \/ c = "_" \/ c = ".") }

\* /[^\w\s@.-}]/ : inside the class, .-} is the range of code points 46..125
ValueRegex ==
   { c \in AsciiChars : ~(IsWordChar(c) \/ IsSpaceChar(c) \/ c = "@" \/ InRange(c, ".", "}")) }

(***************************************************************************)
(* JavaScript values.  A thrown TypeError is a value of its own, so that   *)
(* "the call throws" is observable.                                        *)
(***************************************************************************)
Null == [t |-> "null"]

Str(s) == [t |-> "string", s |-> s]

\* a number: sign, integer part, fraction digits without trailing zeros
Num(neg, int, frac) == [t |-> "number", neg |-> neg, int |-> int, frac |-> frac]

IntNum(n) == Num(FALSE, n, << >>)

Bool(b) == [t |-> "boolean", b |-> b]

\* an object: a function from its own keys (strings) to values
Obj(f) == [t |-> "object", o |-> f]

Arr(a) == [t |-> "array", a |-> a]

TypeError == [t |-> "TypeError"]

IsThrow(v) == v.t = "TypeError"

EmptyObject == [k \in {} |-> Null]

\* the decimal digits of a natural number (String(n))
RECURSIVE ToDecimal(_)
ToDecimal(n) ==
   IF n < 10 THEN << AsciiTable[n + 17] >>
   ELSE ToDecimal(n \div 10) \o << AsciiTable[(n % 10) + 17] >>

\* the natural number written by a sequence of digits
RECURSIVE DigitsValue(_)
DigitsValue(ds) ==
   IF ds = << >> THEN 0
   ELSE 10 * DigitsValue(SubSeq(ds, 1, Len(ds) - 1)) + (Code(ds[Len(ds)]) - 48)

AllDigits(s) == \A i \in 1..Len(s) : IsDigit(s[i])

\* Object.keys(v): throws on null, the indices of a string or an array,
\* nothing for a number or a boolean, the own keys of an object
ObjectKeys(v) ==
   CASE v.t = "null"    -> TypeError
     [] v.t = "string"  -> { ToDecimal(i - 1) : i \in 1..Len(v.s) }
     [] v.t = "array"   -> { ToDecimal(i - 1) : i \in 1..Len(v.a) }
     [] v.t = "object"  -> DOMAIN v.o
     [] OTHER           -> {}

\* v[key] for a key of ObjectKeys(v)
GetProp(v, key) ==
   CASE v.t = "string"  -> Str(<< v.s[DigitsValue(key) + 1] >>)
     [] v.t = "array"   -> v.a[DigitsValue(key) + 1]
     [] v.t = "object"  -> v.o[key]

(***************************************************************************)
(* StringValidator (src/lib/utils/string.validator.ts)                     *)
(***************************************************************************)
\* isInt: a non-empty string of decimal digits
isInt(str) == str # << >> /\ AllDigits(str)

\* isNumberString: -?digits(.digits)?
isNumberString(str) ==
   LET body == IF startsWith(str, << "-" >>) THEN Tail(str) ELSE str
       dot  == indexOf(body, << "." >>)
   IN  IF dot = -1 THEN body # << >> /\ AllDigits(body)
       ELSE /\ dot > 0 /\ AllDigits(substring(body, 0, dot))
            /\ dot + 1 < Len(body) /\ AllDigits(substringFrom(body, dot + 1))

\* isISODate: YYYY-MM-DD with a month 01..12 and a day 01..31
isISODate(str) ==
   /\ Len(str) = 10
   /\ str[5] = "-" /\ str[8] = "-"
   /\ AllDigits(SubSeq(str, 1, 4)) /\ AllDigits(SubSeq(str, 6, 7)) /\ AllDigits(SubSeq(str, 9, 10))
   /\ DigitsValue(SubSeq(str, 6, 7)) \in 1..12
   /\ DigitsValue(SubSeq(str, 9, 10)) \in 1..31

\* isISODateTime: YYYY-MM-DDThh:mm:ssZ
isISODateTime(str) ==
   /\ Len(str) = 20
   /\ isISODate(SubSeq(str, 1, 10))
   /\ str[11] = "T" /\ str[14] = ":" /\ str[17] = ":" /\ str[20] = "Z"
   /\ AllDigits(SubSeq(str, 12, 13)) /\ DigitsValue(SubSeq(str, 12, 13)) \in 0..23
   /\ AllDigits(SubSeq(str, 15, 16)) /\ DigitsValue(SubSeq(str, 15, 16)) \in 0..59
   /\ AllDigits(SubSeq(str, 18, 19)) /\ DigitsValue(SubSeq(str, 18, 19)) \in 0..59

\* +str for a string isNumberString accepts
ToNumber(str) ==
   LET neg  == startsWith(str, << "-" >>)
       body == IF neg THEN Tail(str) ELSE str
       dot  == indexOf(body, << "." >>)
       ip   == IF dot = -1 THEN body ELSE substring(body, 0, dot)
       fp   == IF dot = -1 THEN << >> ELSE substringFrom(body, dot + 1)
       RECURSIVE Strip(_)
       Strip(ds) == IF ds # << >> /\ ds[Len(ds)] = "0" THEN Strip(SubSeq(ds, 1, Len(ds) - 1)) ELSE ds
   IN  Num(neg, DigitsValue(ip), Strip(fp))

\* new Date(str).toISOString() for a string isISODate or isISODateTime accepts
\* (a date whose day exists in its month)
DateToISOString(str) ==
   IF Len(str) = 10 THEN str \o << "T", "0", "0", ":", "0", "0", ":", "0", "0", ".", "0", "0", "0", "Z" >>
   ELSE SubSeq(str, 1, 19) \o << ".", "0", "0", "0", "Z" >>

(***************************************************************************)
(* Strings of the source, as sequences of characters.                      *)
(***************************************************************************)
S_limit == << "l", "i", "m", "i", "t" >>
S_skip == << "s", "k", "i", "p" >>
S_page == << "p", "a", "g", "e" >>
S_select == << "s", "e", "l", "e", "c", "t" >>
S_sort == << "s", "o", "r", "t" >>
S_populate == << "p", "o", "p", "u", "l", "a", "t", "e" >>
S_true == << "t", "r", "u", "e" >>
S_false == << "f", "a", "l", "s", "e" >>
S_exists == << "e", "x", "i", "s", "t", "s" >>
S_regexTag == << "{", "r", "e", "g", "e", "x", "}" >>
S_elemMatchTag == << "{", "e", "l", "e", "m", "M", "a", "t", "c", "h", "}" >>
K_or == << "$", "o", "r" >>
K_regex == << "$", "r", "e", "g", "e", "x" >>
K_options == << "$", "o", "p", "t", "i", "o", "n", "s" >>
K_exists == << "$", "e", "x", "i", "s", "t", "s" >>
K_type == << "$", "t", "y", "p", "e" >>

\* the keys getFilter deletes from its argument
ReservedKeys == { S_limit, S_skip, S_page, S_select, S_sort, S_populate }

\* VALID_OPERATORS.queryOperators.logical
LogicalOperators ==
   { << "$", "a", "n", "d" >>, << "$", "n", "o", "t" >>, << "$", "n", "o", "r" >>, << "$", "o", "r" >> }

\* the operators isComparisonFilter tests, without their braces
ComparisonTags ==
   { << "e", "q" >>, << "g", "t" >>, << "g", "t", "e" >>, << "i", "n" >>,
     << "l", "t" >>, << "l", "t", "e" >>, << "n", "e" >>, << "n", "i", "n" >> }

\* validTypes of getElementType
validTypes ==
   { << "d", "o", "u", "b", "l", "e" >>, << "s", "t", "r", "i", "n", "g" >>,
     << "o", "b", "j", "e", "c", "t" >>, << "a", "r", "r", "a", "y" >>,
     << "b", "i", "n", "D", "a", "t", "a" >>, << "o", "b", "j", "e", "c", "t", "I", "d" >>,
     << "b", "o", "o", "l" >>, << "d", "a", "t", "e" >>, << "n", "u", "l", "l" >>,
     << "r", "e", "g", "e", "x" >>, << "j", "a", "v", "a", "s", "c", "r", "i", "p", "t" >>,
     << "i", "n", "t" >>, << "t", "i", "m", "e", "s", "t", "a", "m", "p" >>,
     << "l", "o", "n", "g" >>, << "d", "e", "c", "i", "m", "a", "l" >>,
     << "m", "i", "n", "K", "e", "y" >>, << "m", "a", "x", "K", "e", "y" >> }

Tag(name) == << "{" >> \o name \o << "}" >>

(***************************************************************************)
(* Predicates on the token                                                 *)
(***************************************************************************)
isComparisonFilter(filter) == \E op \in ComparisonTags : startsWith(filter, Tag(op))

isElementFilter(filter) ==
   startsWith(filter, Tag(S_exists)) \/ startsWith(filter, Tag(<< "t", "y", "p", "e" >>))

isElementMatchFilter(filter) == startsWith(filter, S_elemMatchTag)

\* operator.replace('$', '') drops the leading $ of the operator name
isLogicalOperator(filter) == \E operator \in LogicalOperators : startsWith(filter, Tag(Tail(operator)))

\* isANDFilter with the comparison >= 1: a single group counts as several
isANDFilter_OneGroup(filter) ==
   IF indexOf(filter, << "{" >>) = -1 THEN FALSE
   ELSE Len(SelectSeq(split(filter, << "{" >>), LAMBDA val : val # << >>)) >= 1

isANDFilter(filter) ==
   IF indexOf(filter, << "{" >>) = -1 THEN FALSE
   ELSE Len(SelectSeq(split(filter, << "{" >>), LAMBDA val : val # << >>)) > 1

\* the class [{\w\s@.-}] of isORFilter: .-} is the range of code points 46..125
OrClass(c) == c = "{" \/ IsWordChar(c) \/ IsSpaceChar(c) \/ c = "@" \/ InRange(c, ".", "}")

\* the class [{\w@.-}] of isORFilter
OrLastClass(c) == c = "{" \/ IsWordChar(c) \/ c = "@" \/ InRange(c, ".", "}")

\* the positions (number of characters consumed) that ([{\w\s@.-}]\|?){1,}
\* can reach from the positions of from
RECURSIVE OrGroupsReach(_, _, _)
OrGroupsReach(s, from, seen) ==
   LET step(p) == IF p < Len(s) /\ OrClass(s[p + 1])
                  THEN {p + 1} \cup (IF p + 1 < Len(s) /\ s[p + 2] = "|" THEN {p + 2} ELSE {})
                  ELSE {}
       next == UNION { step(p) : p \in from }
   IN  IF next \subseteq seen THEN seen
       ELSE OrGroupsReach(s, next \ seen, seen \cup next)

\* /^(([{\w\s@.-}]\|?){1,}[{\w@.-}])$/ matches s
OrRegex(s) ==
   \E p \in OrGroupsReach(s, {0}, {}) : p = Len(s) - 1 /\ OrLastClass(s[Len(s)])

\* StringUtils.testString(filter, regex) is regex.test(filter)
isORFilter(filter) ==
   IF indexOf(filter, << "|" >>) = -1 THEN FALSE
   ELSE OrRegex(filter)

\* the white space JSON allows between tokens (printable ASCII only)
JsonTrim(s) == SelectSeq(s, LAMBDA c : c # " ")

\* isJson: JSON.parse succeeds and yields an object or an array.  A string
\* needs a double quote and an array a closing bracket; over characters
\* other than these two the only such text is an empty object.
isJson(item) == JsonTrim(item) = << "{", "}" >>

\* JSON.parse(filter) for a filter isJson accepts
JSONparse(filter) == Obj(EmptyObject)

getElementExists(value) ==
   IF value \notin { S_true, S_false } THEN Null
   ELSE Obj(K_exists :> Bool(value = S_true))

getElementType(value) ==
   IF value \notin validTypes THEN Null
   ELSE Obj(K_type :> Str(value))

(***************************************************************************)
(* Objects whose keys are enumerated: a sequence of entries [k, v] with    *)
(* distinct keys, in insertion order.                                      *)
(***************************************************************************)
\* obj[k] = v
SetEntry(entries, k, v) ==
   IF \E i \in 1..Len(entries) : entries[i].k = k
   THEN [ i \in 1..Len(entries) |-> IF entries[i].k = k THEN [k |-> k, v |-> v] ELSE entries[i] ]
   ELSE Append(entries, [k |-> k, v |-> v])

\* a canonical array index: such keys are enumerated first, in ascending order
IsArrayIndex(k) == k # << >> /\ AllDigits(k) /\ (Len(k) = 1 \/ k[1] # "0") /\ Len(k) <= 9

RECURSIVE SortByIndex(_)
SortByIndex(entries) ==
   IF entries = << >> THEN << >>
   ELSE LET m == CHOOSE i \in 1..Len(entries) :
                    \A j \in 1..Len(entries) : DigitsValue(entries[i].k) <= DigitsValue(entries[j].k)
        IN  << entries[m] >> \o SortByIndex(SubSeq(entries, 1, m - 1) \o SubSeq(entries, m + 1, Len(entries)))

\* the entries in the order of Object.keys
OwnEntries(entries) ==
   SortByIndex(SelectSeq(entries, LAMBDA e : IsArrayIndex(e.k)))
      \o SelectSeq(entries, LAMBDA e : ~IsArrayIndex(e.k))

\* new URLSearchParams(init): the name/value pairs of init, in order.  A
\* leading ? is dropped, empty pairs are skipped, a pair without = has an
\* empty value, + decodes to a space.
URLSearchParams(init) ==
   LET text  == IF startsWith(init, << "?" >>) THEN Tail(init) ELSE init
       pairs == SelectSeq(split(text, << "&" >>), LAMBDA p : p # << >>)
       dec(x) == replaceAll(x, "+", << " " >>)
       pair(p) == LET i == indexOf(p, << "=" >>)
                  IN  IF i = -1 THEN [k |-> dec(p), v |-> << >>]
                      ELSE [k |-> dec(substring(p, 0, i)), v |-> dec(substringFrom(p, i + 1))]
   IN  [ i \in 1..Len(pairs) |-> pair(pairs[i]) ]

(***************************************************************************)
(* getSimpleFilterValue, getFilter, getImplicitANDValue                    *)
(***************************************************************************)
\* the rule of getSimpleFilterValue that handles the token: the first test
\* of the function body that succeeds
Rule(filter) ==
   IF filter = << >> THEN "empty"
   ELSE IF isJson(filter) THEN "json"
   ELSE IF isElementMatchFilter(filter) THEN "elemMatch"
   ELSE IF isLogicalOperator(filter) THEN "logical"
   ELSE IF isORFilter(filter) THEN "or"
   ELSE IF isANDFilter(filter) THEN "and"
   ELSE IF isComparisonFilter(filter) THEN "comparison"
   ELSE IF isElementFilter(filter) THEN "element"
   ELSE IF isISODate(filter) \/ isISODateTime(filter) THEN "date"
   ELSE IF isNumberString(filter) THEN "number"
   ELSE IF filter = S_true \/ filter = S_false THEN "boolean"
   ELSE IF indexOf(filter, << "*" >>) = -1 /\ ~startsWith(filter, S_regexTag) THEN "plain"
   ELSE "regex"

\* const operator = filter.substring(1, first_dot_index)
operatorOf(filter) == substring(filter, 1, indexOf(filter, << "}" >>))

\* const value = filter.substring(first_dot_index + 1)
valueOf(filter) == substringFrom(filter, indexOf(filter, << "}" >>) + 1)

\* constructElemMatchFilter: one property per pair of the sub-query, a
\* repeated name keeps its place and takes the later value
RECURSIVE constructElemMatchFilter(_, _)
constructElemMatchFilter(pairs, acc) ==
   IF pairs = << >> THEN acc
   ELSE constructElemMatchFilter(Tail(pairs), SetEntry(acc, Head(pairs).k, Str(Head(pairs).v)))

elemMatchQuery(filter) ==
   constructElemMatchFilter(URLSearchParams(replaceAll(valueOf(filter), "#", << "&" >>)), << >>)

\* filter.replace(/{/g, ',{').split(',').filter((val) => val !== '')
queryAndValues(filter) ==
   SelectSeq(split(replaceAll(filter, "{", << ",", "{" >>), << "," >>), LAMBDA val : val # << >>)

\* regexValue with the two anchors exchanged
regexValue_SwappedAnchors(filter0) ==
   LET filter == IF startsWith(filter0, S_regexTag) THEN split(filter0, S_regexTag)[2] ELSE filter0
       value  == cleanString(filter, ValueRegex)
       regex  == IF startsWith(filter, << "*" >>)
                 THEN (IF endsWith(filter, << "*" >>)
                       THEN value
                       ELSE value \o << "$" >>)
                 ELSE IF endsWith(filter, << "*" >>) THEN << "^" >> \o value
                 ELSE value
   IN  Obj(K_regex :> Str(regex) @@ K_options :> Str(<< "i" >>))

\* the plain/regex rule, for a token with a * or a leading {regex}
regexValue(filter0) ==
   LET filter == IF startsWith(filter0, S_regexTag) THEN split(filter0, S_regexTag)[2] ELSE filter0
       value  == cleanString(filter, ValueRegex)
       regex  == IF startsWith(filter, << "*" >>)
                 THEN (IF endsWith(filter, << "*" >>)
                       THEN substringFrom(<< "^" >> \o value, 1)
                       ELSE << "^" >> \o value)
                 ELSE IF endsWith(filter, << "*" >>) THEN value \o << "$" >>
                 ELSE value
   IN  Obj(K_regex :> Str(regex) @@ K_options :> Str(<< "i" >>))

\* delete query.limit ... delete query.populate
deleteReserved(query) == SelectSeq(query, LAMBDA e : e.k \notin ReservedKeys)

AnyThrow(values) == \E i \in 1..Len(values) : IsThrow(values[i])

RECURSIVE getSimpleFilterValue(_)
RECURSIVE getFilterReduce(_, _)
RECURSIVE getImplicitANDReduce(_, _)

getMapOfOperatorsWithValues(filter) ==
   [ i \in 1..Len(filter) |-> getSimpleFilterValue(filter[i]) ]

\* getImplicitANDReduce keeping the first value of a repeated key
getImplicitANDReduce_FirstWins(filterValuesMap, acc) ==
   IF filterValuesMap = << >> THEN Obj(acc)
   ELSE LET filterValue == Head(filterValuesMap)
        IN  IF filterValue.t = "null" THEN TypeError
            ELSE LET operatorArray == ObjectKeys(filterValue)
                     copied == [ key \in operatorArray |-> GetProp(filterValue, key) ]
                 IN  getImplicitANDReduce(Tail(filterValuesMap), acc @@ copied)

\* the reduce of getImplicitANDValue: Object.keys(null) throws a TypeError
getImplicitANDReduce(filterValuesMap, acc) ==
   IF filterValuesMap = << >> THEN Obj(acc)
   ELSE LET filterValue == Head(filterValuesMap)
        IN  IF filterValue.t = "null" THEN TypeError
            ELSE LET operatorArray == ObjectKeys(filterValue)
                     copied == [ key \in operatorArray |-> GetProp(filterValue, key) ]
                 IN  getImplicitANDReduce(Tail(filterValuesMap), copied @@ acc)

getImplicitANDValue(filter) ==
   LET filterValuesMap == getMapOfOperatorsWithValues(filter)
   IN  IF AnyThrow(filterValuesMap) THEN TypeError
       ELSE getImplicitANDReduce(filterValuesMap, EmptyObject)

\* the reduce of getFilter over Object.keys(query)
getFilterReduce(entries, obj) ==
   IF entries = << >> THEN Obj(obj)
   ELSE LET key        == Head(entries).k
            queryValue == Head(entries).v
            cleanKey   == cleanString(key, KeyRegex)
        IN  IF queryValue.t = "array"
            THEN LET merged == getImplicitANDValue(queryValue.a)
                 IN  IF IsThrow(merged) THEN TypeError
                     ELSE getFilterReduce(Tail(entries), (cleanKey :> merged) @@ obj)
            ELSE LET value == getSimpleFilterValue(queryValue.s)
                 IN  IF IsThrow(value) THEN TypeError
                     ELSE IF value # Null
                          THEN getFilterReduce(Tail(entries), (cleanKey :> value) @@ obj)
                          ELSE getFilterReduce(Tail(entries), obj)

getFilter(query) == getFilterReduce(OwnEntries(deleteReserved(query)), EmptyObject)

getSimpleFilterValue(filter) ==
   LET rule == Rule(filter)
       wrap(v) == IF IsThrow(v) THEN TypeError ELSE Obj((<< "$" >> \o operatorOf(filter)) :> v)
   IN  CASE rule = "empty"      -> Null
         [] rule = "json"       -> JSONparse(filter)
         [] rule = "elemMatch"  -> IF valueOf(filter) = << >> THEN Null
                                   ELSE wrap(getFilter(elemMatchQuery(filter)))
         [] rule = "logical"    -> wrap(getSimpleFilterValue(valueOf(filter)))
         [] rule = "or"         -> LET segs == getMapOfOperatorsWithValues(split(filter, << "|" >>))
                                   IN  IF AnyThrow(segs) THEN TypeError
                                       ELSE Obj(K_or :> Arr(segs))
         [] rule = "and"        -> getImplicitANDValue(queryAndValues(filter))
         [] rule = "comparison" -> IF valueOf(filter) = << >> THEN Null
                                   ELSE wrap(getSimpleFilterValue(valueOf(filter)))
         [] rule = "element"    -> IF valueOf(filter) = << >> THEN Null
                                   ELSE IF operatorOf(filter) = S_exists
                                        THEN getElementExists(valueOf(filter))
                                        ELSE getElementType(valueOf(filter))
         [] rule = "date"       -> Str(DateToISOString(filter))
         [] rule = "number"     -> ToNumber(filter)
         [] rule = "boolean"    -> Bool(filter = S_true)
         [] rule = "plain"      -> Str(filter)
         [] rule = "regex"      -> regexValue(filter)

\* the strings getSimpleFilterValue(filter) passes to getSimpleFilterValue,
\* directly or through getMapOfOperatorsWithValues and getFilter
SubCalls(filter) ==
   LET rule == Rule(filter)
   IN  CASE rule = "elemMatch"  -> IF valueOf(filter) = << >> THEN << >>
                                   ELSE LET es == OwnEntries(deleteReserved(elemMatchQuery(filter)))
                                        IN  [ i \in 1..Len(es) |-> es[i].v.s ]
         [] rule = "logical"    -> << valueOf(filter) >>
         [] rule = "or"         -> split(filter, << "|" >>)
         [] rule = "and"        -> queryAndValues(filter)
         [] rule = "comparison" -> IF valueOf(filter) = << >> THEN << >> ELSE << valueOf(filter) >>
         [] OTHER               -> << >>

(***************************************************************************)
(* parse and the pagination, projection and sort builders.  The raw query  *)
(* is the sequence of its entries [k, v] in insertion order; a value is a  *)
(* string (Str) or an array of strings (Arr); the values of the reserved    *)
(* keys are strings.                                                       *)
(***************************************************************************)
Has(query, key) == \E i \in 1..Len(query) : query[i].k = key

Get(query, key) == query[CHOOSE i \in 1..Len(query) : query[i].k = key].v

\* !query[key] : the key is absent or its value is the empty string
Falsy(query, key) == ~Has(query, key) \/ Get(query, key) = Str(<< >>)

def_limit == 100

def_skip == 0

def_page == 1

getIntKey(query, key, def) ==
   IF Falsy(query, key) \/ ~isInt(Get(query, key).s) THEN def
   ELSE DigitsValue(Get(query, key).s)

getSkipFromPage(query, def, limit) ==
   LET page == getIntKey(query, S_page, def)
   IN  IF page > 1 THEN (page - 1) * limit ELSE 0

\* the reduce of getSelect and getSort: minus is the value of a key that
\* starts with '-'
RECURSIVE fieldsReduce(_, _, _)
fieldsReduce(keys, obj, minus) ==
   IF keys = << >> THEN obj
   ELSE LET key      == Head(keys)
            cleanKey == cleanString(key, KeyRegex)
        IN  fieldsReduce(Tail(keys),
                         (cleanKey :> (IF startsWith(key, << "-" >>) THEN minus ELSE 1)) @@ obj,
                         minus)

getSelect(query) ==
   IF Falsy(query, S_select) THEN EmptyObject
   ELSE fieldsReduce(splitString(Get(query, S_select).s, << "," >>), EmptyObject, 0)

getSort(query) ==
   IF Falsy(query, S_sort) THEN EmptyObject
   ELSE fieldsReduce(splitString(Get(query, S_sort).s, << "," >>), EmptyObject, -1)

\* parse(query): the descriptor, or the TypeError getFilter throws
parse(query) ==
   LET limit  == getIntKey(query, S_limit, def_limit)
       skip   == IF ~Falsy(query, S_page)
                 THEN getSkipFromPage(query, def_page, limit)
                 ELSE getIntKey(query, S_skip, def_skip)
       filter == getFilter(query)
   IN  IF IsThrow(filter) THEN TypeError
       ELSE [t |-> "MongoQueryModel", limit |-> limit, skip |-> skip,
             select |-> getSelect(query), sort |-> getSort(query), filter |-> filter]

(***************************************************************************)
(* Inputs.  A token is a concatenation of at most MaxParts pieces (tags,   *)
(* operands and separators of the filter syntax) or one of the longer      *)
(* example tokens.                                                         *)
(***************************************************************************)
MaxParts == 3

MaxArrayLen == 2

MaxKeys == 2

MaxFields == 2

Pieces ==
   { << "{", "g", "t", "}" >>, << "{", "l", "t", "}" >>, << "{", "a", "n", "d", "}" >>, << "{", "e", "x", "i", "s", "t", "s", "}" >>, << "{", "t", "y", "p", "e", "}" >>, << "{", "e", "l", "e", "m", "M", "a", "t", "c", "h", "}" >>,
     << "{", "r", "e", "g", "e", "x", "}" >>, << "5" >>, << "a" >>, << "*" >>, << "|" >>, << "-" >>,
     << "[" >>, << "=" >>, << "{" >>, << "}" >> }

ExampleTokens ==
   { << "{", "g", "t", "}", "5", "{", "g", "t", "}", "7", "{", "l", "t", "}", "1", "0" >>,
     << "{", "g", "t", "e", "}", "1", "8", "{", "l", "t", "e", "}", "6", "5" >>,
     << "{", "e", "l", "e", "m", "M", "a", "t", "c", "h", "}", "-", "l", "i", "m", "i", "t", "=", "5", "#", "a", "=", "{", "g", "t", "}", "7", "#", "l", "i", "m", "i", "t", "=", "3" >>,
     << "{", "e", "l", "e", "m", "M", "a", "t", "c", "h", "}", "a", "=", "5", "#", "-", "a", "=", "7", "#", "2", "=", "b", "#", "1", "=", "c" >>,
     << "2", "0", "2", "4", "-", "0", "1", "-", "1", "5" >>,
     << "{", "o", "r", "}", "{", "g", "t", "}", "5", "|", "a", "*" >>,
     << "{", "r", "e", "g", "e", "x", "}", "a", "-", "b", "@", "c", ".", "d", " ", "e" >>,
     << "-", "5", ".", "5", "0" >>,
     << "{", " ", "}" >>,
     << "{", "n", "i", "n", "}", "a", ",", "b", "{", "g", "t", "}", "5" >>,
     << "t", "r", "u", "e" >>,
     << "{", "e", "x", "i", "s", "t", "s", "}", "t", "r", "u", "e" >>,
     << "{", "e", "x", "i", "s", "t", "s", "}", "m", "a", "y", "b", "e" >>,
     << "{", "t", "y", "p", "e", "}", "i", "n", "t" >>,
     << "{", "t", "y", "p", "e", "}", "b", "o", "g", "u", "s" >>,
     << "*", "a", "b", "c", "*" >> }

RECURSIVE PieceStrings(_)
PieceStrings(n) ==
   IF n = 0 THEN { << >> }
   ELSE LET shorter == PieceStrings(n - 1)
        IN  shorter \cup { p \o t : p \in Pieces, t \in shorter }

Tokens == PieceStrings(MaxParts) \cup ExampleTokens

\* the elements of a multi-valued key
ArrayTokens ==
   { << "{", "g", "t", "}", "5" >>, << "{", "g", "t", "}", "7" >>,
     << "{", "l", "t", "}", "5" >>, << "{", "g", "t", "}" >>,
     << "a", "b", "c" >>, << "{", "e", "x", "i", "s", "t", "s", "}", "t", "r", "u", "e" >> }

RECURSIVE Lists(_, _)
Lists(elems, n) ==
   IF n = 0 THEN { << >> }
   ELSE LET shorter == Lists(elems, n - 1)
        IN  shorter \cup { << e >> \o l : e \in elems, l \in { x \in shorter : Len(x) = n - 1 } }

\* the raw keys and the raw string values of the filter part of a query
FilterKeys ==
   { << "a" >>, << "-", "a" >>, << "a", ".", "b", "[", "^" >>,
     << "-", "l", "i", "m", "i", "t" >>, << "l", "i", "m", "i", "t", "!" >> }

QueryTokens ==
   { << "5" >>, << "{", "g", "t", "}", "5" >>,
     << "{", "g", "t", "}" >>, << "{", "g", "t", "}", "5", "{", "l", "t", "}", "7" >>,
     << "a", "*" >>, << "{", "t", "y", "p", "e", "}", "b", "o", "g", "u", "s" >>,
     << "{", "e", "l", "e", "m", "M", "a", "t", "c", "h", "}", "-", "l", "i", "m", "i", "t", "=", "5" >> }

Entry(key, value) == [k |-> key, v |-> value]

FilterEntries == { Entry(key, Str(t)) : key \in FilterKeys, t \in QueryTokens }

DistinctKeys(query) == \A i, j \in 1..Len(query) : query[i].k = query[j].k => i = j

FilterQueries == { q \in Lists(FilterEntries, MaxKeys) : DistinctKeys(q) }

ArrayQueries ==
   { << Entry(key, Arr(l)) >> : key \in FilterKeys, l \in Lists(ArrayTokens, MaxArrayLen) \ { << >> } }

\* an absent key, or the key with one of the values
Optional(key, values) == { << >> } \cup { << Entry(key, Str(v)) >> : v \in values }

LimitValues ==
   { << "0" >>, << "1", "0" >>, << "a", "b", "c" >>, << "-", "5" >> }

SkipValues ==
   { << "0" >>, << "5" >>, << "x" >> }

PageValues ==
   { << "0" >>, << "1" >>, << "3" >>, << "x" >> }

PaginationQueries ==
   { l \o s \o p \o f : l \in Optional(S_limit, LimitValues), s \in Optional(S_skip, SkipValues),
                        p \in Optional(S_page, PageValues),
                        f \in Optional(<< "a" >>, { << "5" >> }) }

FieldNames ==
   { << "n", "a", "m", "e" >>, << "-", "s", "e", "c", "r", "e", "t" >>, << "-", "c", ".", "d", "[", "^" >> }

RECURSIVE Join(_)
Join(fields) ==
   IF Len(fields) = 1 THEN Head(fields)
   ELSE Head(fields) \o << "," >> \o Join(Tail(fields))

FieldLists == { Join(l) : l \in Lists(FieldNames, MaxFields) \ { << >> } }

ProjectionQueries ==
   { sl \o so \o po : sl \in Optional(S_select, FieldLists), so \in Optional(S_sort, FieldLists),
                      po \in Optional(S_populate, { << "x" >> }) }

\* { name: "*jo", age: "{gte}18{lte}65", status: "a|b" }
ExampleQuery ==
   << Entry(<< "n", "a", "m", "e" >>, Str(<< "*", "j", "o" >>)),
      Entry(<< "a", "g", "e" >>, Str(<< "{", "g", "t", "e", "}", "1", "8", "{", "l", "t", "e", "}", "6", "5" >>)),
      Entry(<< "s", "t", "a", "t", "u", "s" >>, Str(<< "a", "|", "b" >>)) >>

RawQueries == FilterQueries \cup ArrayQueries \cup PaginationQueries \cup ProjectionQueries \cup { ExampleQuery }

(***************************************************************************)
(* State                                                                   *)
(***************************************************************************)
VARIABLES
   query,    \* the raw query object the host passes to parse
   result,   \* what the last call of parse returned or threw
   input,    \* a raw filter value: a token (Str) or the array of a multi-valued key (Arr)
   value,    \* what classifying input returned or threw
   stack,    \* the tokens getSimpleFilterValue has still to be called on
   cur,      \* the token of the last call of getSimpleFilterValue
   kids      \* the tokens that call passes to getSimpleFilterValue

vars == << query, result, input, value, stack, cur, kids >>

None == [t |-> "none"]

\* ---- parse, called by the host on one raw query object ----
Init ==
   /\ query \in RawQueries
   /\ result = None
   /\ input = Str(<< >>) /\ value = None
   /\ stack = << >> /\ cur = << >> /\ kids = << >>

\* parse(query): getFilter deletes the reserved keys of its argument, which
\* is the caller's object
Parse ==
   /\ result' = parse(query)
   /\ query' = deleteReserved(query)
   /\ UNCHANGED << input, value, stack, cur, kids >>

Next == Parse

Spec == Init /\ [][Next]_vars

\* ---- the classifier on one raw filter value ----
InitClassify ==
   /\ input \in { Str(t) : t \in Tokens } \cup { Arr(l) : l \in Lists(ArrayTokens, MaxArrayLen) }
   /\ value = None
   /\ query = << >> /\ result = None
   /\ stack = << >> /\ cur = << >> /\ kids = << >>

\* getSimpleFilterValue(filter) on a scalar value
Classify ==
   /\ value = None
   /\ input.t = "string"
   /\ value' = getSimpleFilterValue(input.s)
   /\ UNCHANGED << query, result, input, stack, cur, kids >>

\* getImplicitANDValue(queryValue) on the array of a multi-valued key
ImplicitAND ==
   /\ value = None
   /\ input.t = "array"
   /\ value' = getImplicitANDValue(input.a)
   /\ UNCHANGED << query, result, input, stack, cur, kids >>

NextClassify == Classify \/ ImplicitAND

SpecClassify == InitClassify /\ [][NextClassify]_vars

\* ---- the calls of getSimpleFilterValue, one call per step ----
InitCalls ==
   /\ input \in { Str(t) : t \in Tokens }
   /\ stack = << input.s >>
   /\ cur = << >> /\ kids = << >>
   /\ value = None
   /\ query = << >> /\ result = None

\* one call of getSimpleFilterValue: the calls it makes are pending next
Call ==
   /\ stack # << >>
   /\ cur' = Head(stack)
   /\ kids' = SubCalls(Head(stack))
   /\ stack' = SubCalls(Head(stack)) \o Tail(stack)
   /\ UNCHANGED << query, result, input, value >>

NextCalls == Call

SpecCalls == InitCalls /\ [][NextCalls]_vars /\ WF_vars(Call)

(***************************************************************************)
(* Properties                                                              *)
(***************************************************************************)
IsDescriptor(r) == r.t = "MongoQueryModel"

K_elemMatch == << "$", "e", "l", "e", "m", "M", "a", "t", "c", "h" >>

\* the field paths of a filter tree: its keys and the keys of the
\* sub-filters of the $elemMatch operators inside it
RECURSIVE FieldPaths(_)
RECURSIVE SubFilterPaths(_)
FieldPaths(tree) ==
   DOMAIN tree.o \cup UNION { SubFilterPaths(tree.o[k]) : k \in DOMAIN tree.o }

SubFilterPaths(v) ==
   CASE v.t = "object" ->
           UNION { IF k = K_elemMatch /\ v.o[k].t = "object"
                   THEN FieldPaths(v.o[k])
                   ELSE SubFilterPaths(v.o[k]) : k \in DOMAIN v.o }
     [] v.t = "array"  -> UNION { SubFilterPaths(v.a[i]) : i \in 1..Len(v.a) }
     [] OTHER          -> {}

\* the keys of the operator objects of a classified value, the field paths
\* of $elemMatch sub-filters left out
RECURSIVE OperatorKeys(_)
OperatorKeys(v) ==
   CASE v.t = "object" ->
           DOMAIN v.o \cup
           UNION { IF k = K_elemMatch /\ v.o[k].t = "object"
                   THEN UNION { OperatorKeys(v.o[k].o[p]) : p \in DOMAIN v.o[k].o }
                   ELSE OperatorKeys(v.o[k]) : k \in DOMAIN v.o }
     [] v.t = "array"  -> UNION { OperatorKeys(v.a[i]) : i \in 1..Len(v.a) }
     [] OTHER          -> {}

\* C1: compilation never raises: classifying a token, or merging the
\* elements of a multi-valued key, returns a value and does not throw.
C1_NeverThrows == ~IsThrow(value)

\* C2: none of the reserved names limit, skip, page, select, sort, populate
\* is a key of the filter tree parse returns, sub-filters of $elemMatch
\* included.
C2_NoReservedKey ==
   IsDescriptor(result) => FieldPaths(result.filter) \cap ReservedKeys = {}

\* C3: the descriptor parse returns has limit >= 1 and skip >= 0.
C3_LimitSkipRange ==
   IsDescriptor(result) => result.limit >= 1 /\ result.skip >= 0

\* a letter, a digit, '_' or '.'
IsFieldPathChar(c) ==
   InRange(c, "A", "Z") \/ InRange(c, "a", "z") \/ InRange(c, "0", "9") \/ c = "_" \/ c = "."

\* C4: every field-path key of the select map, the sort map and the filter
\* tree consists only of ASCII letters, digits, '_' and '.'.
C4_SanitizedKeys ==
   IsDescriptor(result) =>
      \A key \in DOMAIN result.select \cup DOMAIN result.sort \cup FieldPaths(result.filter) :
         \A i \in 1..Len(key) : IsFieldPathChar(key[i])

\* C6: parse leaves its argument as it was, and every further call of parse
\* on the same object returns the descriptor the previous call returned.
C6_ParseIsPure ==
   [][query' = query /\ (result # None => result' = result)]_vars

Vocabulary ==
   { << "$" >> \o op : op \in ComparisonTags } \cup LogicalOperators
      \cup { K_exists, K_type, K_elemMatch, K_regex, K_options }

\* C9: for a token that is not a JSON literal, and for a multi-valued key,
\* every key of every operator object of the result is one of the fixed
\* operator symbols.
C9_FixedVocabulary ==
   (value # None /\ ~IsThrow(value) /\ (input.t = "string" => ~isJson(input.s)))
      => OperatorKeys(value) \subseteq Vocabulary

\* a word character, white space, '@', '.', '-' or '}'
IsSafeChar(c) == IsWordChar(c) \/ IsSpaceChar(c) \/ c \in { "@", ".", "-", "}" }

\* the token after removal of a leading {regex} tag
Untagged(filter) ==
   IF startsWith(filter, S_regexTag) THEN substringFrom(filter, Len(S_regexTag)) ELSE filter

\* C10: the $regex pattern of a token of the plain/regex rule with a '*' or
\* a leading {regex} is, apart from one added '^' or '$', the characters of
\* the untagged token that are word characters, white space, '@', '.', '-'
\* or '}', in their order.
C10_SafeSubset ==
   (input.t = "string" /\ value # None /\ Rule(input.s) = "regex") =>
      LET safe == SelectSeq(Untagged(input.s), IsSafeChar)
      IN  value.o[K_regex].s \in { safe, << "^" >> \o safe, safe \o << "$" >> }

\* the filter tree of the example with the given $regex pattern for name
ExampleFilter(pattern) ==
   Obj(   << "n", "a", "m", "e" >> :> Obj(K_regex :> Str(pattern) @@ K_options :> Str(<< "i" >>))
       @@ << "a", "g", "e" >> :> Obj(<< "$", "g", "t", "e" >> :> IntNum(18) @@ << "$", "l", "t", "e" >> :> IntNum(65))
       @@ << "s", "t", "a", "t", "u", "s" >> :> Obj(K_or :> Arr(<< Str(<< "a" >>), Str(<< "b" >>) >>)))

ScalarQuery(q) == \A i \in 1..Len(q) : q[i].v.t = "string"

\* the entry whose value getFilter leaves under the sanitized key ck: the
\* last one with that sanitized key and a classification other than null
Assigned(q, ck, i) ==
   /\ cleanString(q[i].k, KeyRegex) = ck
   /\ getSimpleFilterValue(q[i].v.s) # Null
   /\ \A j \in (i + 1)..Len(q) :
         cleanString(q[j].k, KeyRegex) = ck => getSimpleFilterValue(q[j].v.s) = Null

\* C5 as stated: the example compiles to the tree with the pattern "jo$"
\* for name.
C5_ExampleAsStated ==
   (query = ExampleQuery /\ result # None) =>
      IsDescriptor(result) /\ result.filter = ExampleFilter(<< "j", "o", "$" >>)

\* C5: for a raw filter map with scalar string values, the filter tree has,
\* under each sanitized key, the classification of the value of that key
\* (of the last such key with a classification), and the example compiles
\* to the tree with the pattern "^jo" for name, one merged object
\* { $gte: 18, $lte: 65 } for age and { $or: ["a", "b"] } for status.
C5_CompileFilter ==
   /\ (query = ExampleQuery /\ result # None) =>
         IsDescriptor(result) /\ result.filter = ExampleFilter(<< "^", "j", "o" >>)
   /\ (IsDescriptor(result) /\ ScalarQuery(query)) =>
         \A ck \in { cleanString(query[i].k, KeyRegex) : i \in 1..Len(query) } \cup DOMAIN result.filter.o :
            IF \E i \in 1..Len(query) : Assigned(query, ck, i)
            THEN \E i \in 1..Len(query) :
                    Assigned(query, ck, i) /\ ck \in DOMAIN result.filter.o
                       /\ result.filter.o[ck] = getSimpleFilterValue(query[i].v.s)
            ELSE ck \notin DOMAIN result.filter.o

C5_Witness == query = ExampleQuery /\ IsDescriptor(result)

\* the strings merged by the implicit AND: the elements of a multi-valued
\* key or the groups of a brace-concatenated token
Groups ==
   IF input.t = "array" THEN input.a ELSE queryAndValues(input.s)

SingleOperator(v) == v.t = "object" /\ Cardinality(DOMAIN v.o) = 1

OnlyKey(v) == CHOOSE k \in DOMAIN v.o : TRUE

\* the implicit AND has merged groups that are single-operator objects
MergeCase ==
   /\ value # None
   /\ input.t = "string" => Rule(input.s) = "and"
   /\ \A i \in 1..Len(Groups) : SingleOperator(getSimpleFilterValue(Groups[i]))

\* C7: the implicit-AND merge of single-operator objects is one object with
\* exactly the operator symbols produced, each with the value of the latest
\* group or element that produced it; no array and no $and wrapper.
C7_LastWriteWins ==
   MergeCase =>
      LET g(i) == getSimpleFilterValue(Groups[i])
      IN  /\ value.t = "object"
          /\ DOMAIN value.o = { OnlyKey(g(i)) : i \in 1..Len(Groups) }
          /\ \A i \in 1..Len(Groups) :
                (\A j \in (i + 1)..Len(Groups) : OnlyKey(g(j)) # OnlyKey(g(i)))
                   => value.o[OnlyKey(g(i))] = g(i).o[OnlyKey(g(i))]

C7_Witness ==
   /\ MergeCase
   /\ Len(Groups) >= 2
   /\ \E i, j \in 1..Len(Groups) :
         /\ i < j
         /\ OnlyKey(getSimpleFilterValue(Groups[i])) = OnlyKey(getSimpleFilterValue(Groups[j]))
         /\ getSimpleFilterValue(Groups[i]) # getSimpleFilterValue(Groups[j])

\* C8: every call getSimpleFilterValue makes on behalf of a token is on a
\* strictly shorter string, and the empty token makes no call.
C8_StrictlyShorter ==
   \A i \in 1..Len(kids) : Len(kids[i]) < Len(cur)

C8_Witness ==
   /\ Rule(cur) = "and"
   /\ Len(kids) >= 2
   /\ \E i \in 1..Len(kids) : Rule(kids[i]) = "comparison"

====
